---- MODULE Spec2Model ----
(***************************************************************************)
(* Two-way synchronisation of Notion database pages and Google Calendar    *)
(* events (src/src/main.gs, src/src/calendarIds.gs), as a state machine.   *)
(*                                                                         *)
(* The Notion databases and the calendars are external stores: `pages' and *)
(* `events'.  One invocation of main() is a walk of `pc' through the       *)
(* phases of each database (deleted pass, completed pass, push, pull per   *)
(* calendar); every loop iteration of the script is one action.  Users     *)
(* edit pages and events between invocations (pc = "idle").                *)
(*                                                                         *)
(* Time is kept relative to the running invocation: a page synchronised by *)
(* an earlier invocation carries time 1, a page edited since then time 2,  *)
(* and the running invocation writes time 3 (Rebase at the end of it).     *)
(* Calendar and Notion calls that can fail for reasons outside the stores  *)
(* (apiOk) do so at most MaxFaults times.                                  *)
(***************************************************************************)
EXTENDS Integers, Sequences, FiniteSets, TLC

\* ---------------------------------------------------------------- bounds
MaxEdits == 2       \* user actions on pages and events between invocations
MaxFaults == 1      \* calls that fail although their target exists, tokens that expire
NumPages == 3       \* page slots of the Notion workspace
NumEvents == 3      \* event identifiers Google Calendar can hand out

PageIds == 1..NumPages
EventIds == 1..NumEvents

\* ------------------------------------------------- configuration surface
DELETED_TAG_NAME == "DELETED"
IGNORE_SYNC_TAG_NAME == "Ignore Sync"
COMPLETED_STATUS_NAME == "Completed"
OtherTag == "Other"             \* a tag the user applied by hand
OpenStatus == "Open"            \* any status that is not Completed
TagNames == {DELETED_TAG_NAME, IGNORE_SYNC_TAG_NAME, OtherTag}

\* calendar name -> calendar id
CALENDAR_IDS == [Primary |-> "primary", Exams |-> "exams"]
CalNames == DOMAIN CALENDAR_IDS
CalIds == {CALENDAR_IDS[n] : n \in CalNames}
DEFAULT_CALENDAR_NAME == "Primary"
CALENDARS_IGNORING_COMPLETED_DELETION == {"Exams"}
UnknownCalName == "Unlisted"    \* a Calendar value that is no key of CALENDAR_IDS
NoSel == "none"                 \* an empty select property
Undefined == "undefined"
NoId == 0                       \* an empty Event ID

\* script properties: database keys and the database id each URL holds
DbIdOf == [MAIN_DATABASE_URL |-> "D1", CLUB_DATABASE_URL |-> "D2",
           EXTRACURRICULAR_DATABASE_URL |-> "D2"]
DbIds == {"D1", "D2"}
DATABASES_IGNORING_GCAL_UPDATES == {"EXTRACURRICULAR_DATABASE_URL"}
NoTag == "none"                 \* an event without the NotionDB tag

\* date values: none, "YYYY-MM-DD" (a day number), "YYYY-MM-DDT00:00:00" (the
\* midnight of a day, no offset), a date-time with offset (an instant, in minutes)
Null == [kind |-> "null", v |-> 0]
DateOnly(d) == [kind |-> "date", v |-> d]
LocalMidnight(d) == [kind |-> "local", v |-> d]
DateTime(t) == [kind |-> "time", v |-> t]
Day == 24 * 60
NoDate == [start |-> Null, end |-> Null]        \* a page without a date
OneDay == [start |-> DateOnly(10), end |-> Null]
Dates == {NoDate, OneDay}
DescLens == {0, 2001}           \* lengths of the descriptions users write

VARIABLES
    cfg,            \* script settings and script properties (fixed in a behaviour)
    subject,        \* the page the user works on (fixed in a behaviour)
    pages,          \* Notion: page id -> page
    events,         \* Google Calendar: event id -> event
    syncToken,      \* user property "syncToken"
    edits, faults,  \* user actions made, failed calls injected
    pc,             \* position of the running invocation
    dbIdx,          \* index in Databases of the database being processed
    entry,          \* the function the running invocation started with
    DATABASE_PROPERTIES_STORE,  \* database id -> the schema fetched in this invocation
    results,        \* query results the current loop still has to visit
    deleted_eIds, completed_eIds, modified_eIds, ignored_eIds,
    calsLeft,       \* calendar names syncFromGCal() is still to be called for
    pull,           \* the running syncFromGCal() call
    requests,       \* parseEvents(): the batch collected so far
    pushed,         \* events syncToGCal() created or updated for this database
    last,           \* what the last step did (observation only)
    err             \* the error that ended the invocation, or "none"

\* what main() keeps for the database it is processing
Sets == <<dbIdx, entry, DATABASE_PROPERTIES_STORE, deleted_eIds, completed_eIds, modified_eIds, ignored_eIds, pushed>>

vars == <<cfg, subject, pages, events, syncToken, edits, faults, pc, dbIdx, entry,
          DATABASE_PROPERTIES_STORE, results, deleted_eIds, completed_eIds, modified_eIds, ignored_eIds,
          calsLeft, pull, requests, pushed, last, err>>

ARCHIVE_DELETED_PAGES == cfg.ARCHIVE_DELETED_PAGES
TAG_CANCELLED_EVENTS == cfg.TAG_CANCELLED_EVENTS
IGNORE_RECENTLY_PUSHED == cfg.IGNORE_RECENTLY_PUSHED
SKIP_BAD_EVENTS == cfg.SKIP_BAD_EVENTS

\* the shipped settings, and each setting switched off alone (SKIP_BAD_EVENTS
\* is read only by code that no call reaches, main.gs 477-486)
DefaultCfg == [ARCHIVE_DELETED_PAGES |-> TRUE, TAG_CANCELLED_EVENTS |-> TRUE,
               IGNORE_RECENTLY_PUSHED |-> TRUE, SKIP_BAD_EVENTS |-> TRUE,
               tz |-> 0,     \* time zone of the script, minutes east of UTC
               databases |-> <<"MAIN_DATABASE_URL", "CLUB_DATABASE_URL">>,
               statusProp |-> {"D1", "D2"}]   \* databases whose schema has Status
Switches == {"ARCHIVE_DELETED_PAGES", "TAG_CANCELLED_EVENTS", "IGNORE_RECENTLY_PUSHED"}
SwitchConfigs == {DefaultCfg} \cup {[DefaultCfg EXCEPT ![k] = FALSE] : k \in Switches}
\* a second database that ignores calendar updates, or that has no Status
DatabaseConfigs ==
    {[DefaultCfg EXCEPT !.databases =
          <<"MAIN_DATABASE_URL", "EXTRACURRICULAR_DATABASE_URL">>],
     [DefaultCfg EXCEPT !.statusProp = {"D1"}]}
Configs == SwitchConfigs \cup DatabaseConfigs

\* retrieveDatabaseKeys(), extractDatabaseId()
retrieveDatabaseKeys == cfg.databases
DATABASE_ID == DbIdOf[retrieveDatabaseKeys[dbIdx]]
SyncedTime == 1
EditTime == 2
RunTime == 3

\* the clock moves on to the next invocation: what this one synchronised
\* becomes "synchronised earlier", what is still unsynchronised stays so
Rebase(pg) ==
    [p \in DOMAIN pg |->
        IF pg[p].st = "absent" THEN pg[p]
        ELSE [pg[p] EXCEPT
                !.lastSync = IF @ = 0 THEN 0 ELSE SyncedTime,
                !.lastEdited = IF pg[p].lastSync >= @ THEN SyncedTime ELSE EditTime]]

\* the outcomes a call to an external service can have: it fails although
\* its target exists at most MaxFaults times
ApiOutcomes(possible) == IF possible /\ faults < MaxFaults THEN BOOLEAN ELSE {TRUE}
Charge(oks) == faults + Cardinality({i \in DOMAIN oks : ~oks[i]})

\* ------------------------------------------------------------- records
AbsentPage == [st |-> "absent", db |-> "D1", title |-> "a", date |-> NoDate,
               desc |-> 0, tags |-> {}, status |-> OpenStatus, calName |-> NoSel,
               eventId |-> NoId, calId |-> NoSel, lastSync |-> 0, lastEdited |-> 0]
FreeEvent == [st |-> "free", cal |-> "primary", tag |-> NoTag, summary |-> "a",
              desc |-> 0, date |-> [all_day |-> TRUE, start |-> 0, end |-> 0],
              bare |-> FALSE,
              page |-> 0,   \* the page createEvent() made the event for (history)
              by |-> "none"]    \* the phase whose deleteEvent() removed it (history)
NoToken == [cal |-> NoSel, since |-> {}, valid |-> FALSE]
NoOptions == [syncToken |-> {}, timeMin |-> {}, timeMax |-> {}]
NoPull == [cal_name |-> NoSel, fullSync |-> FALSE, retry |-> FALSE, first |-> TRUE,
           pageToken |-> <<>>, items |-> <<>>, options |-> NoOptions]
UndefinedSet == {-1}            \* the value of a call that returned nothing
Idle == [op |-> "none", page |-> 0, event |-> NoId, ok |-> TRUE]

\* ------------------------------------------------------------ utilities
\* the optional properties in the schema of a database
STATUS_NOTION == "Status"
Schema(database_id) == IF database_id \in cfg.statusProp THEN {STATUS_NOTION} ELSE {}

\* the store of a new execution: nothing fetched
NoStore == [d \in DbIds |-> [stored |-> FALSE, properties |-> {}, fetches |-> 0]]

\* a store with one slot: every database gets the schema stored first
storeUnkeyed(store, database_id) ==
    IF \E d \in DbIds : store[d].stored
    THEN [store EXCEPT ![database_id] =
             [stored |-> TRUE, fetches |-> @.fetches,
              properties |-> store[CHOOSE d \in DbIds : store[d].stored].properties]]
    ELSE [store EXCEPT ![database_id] =
             [stored |-> TRUE, properties |-> Schema(database_id),
              fetches |-> @.fetches + 1]]

\* doesDatabaseHaveProperty(): the schema of the database is fetched when the
\* store has none under its id
storeDatabaseProperties(store, database_id) ==
    IF store[database_id].stored THEN store
    ELSE [store EXCEPT ![database_id] =
             [stored |-> TRUE, properties |-> Schema(database_id),
              fetches |-> @.fetches + 1]]

\* doesDatabaseHaveProperty(STATUS_NOTION) for the current database
doesDatabaseHaveStatus ==
    STATUS_NOTION \in DATABASE_PROPERTIES_STORE[DATABASE_ID].properties

\* a comparison that also takes an entry synchronised at its last edit
isPageUpdatedOrSynced(page_result) == page_result.lastSync <= page_result.lastEdited

\* isPageUpdatedRecently(): Last Sync (the epoch when empty) before last_edited_time
isPageUpdatedRecently(page_result) == page_result.lastSync < page_result.lastEdited

\* the pages of a query, in page order
RECURSIVE SeqOfSet(_)
SeqOfSet(S) ==
    IF S = {} THEN <<>>
    ELSE LET m == CHOOSE x \in S : \A y \in S : x <= y
         IN <<m>> \o SeqOfSet(S \ {m})


\* notionFetch(getDatabaseQueryURL(), payload): the unarchived pages of the
\* database among those that pass the filter of the payload, each with its
\* properties as of now
Query(db, passing) ==
    LET hit == {p \in passing : /\ pages[p].st = "active"
                                /\ pages[p].db = db}
        ids == SeqOfSet(hit)
    IN [i \in 1..Len(ids) |-> [id |-> ids[i], props |-> pages[ids[i]]]]

\* ------------------------------------------------------- Notion writes
\* pushDatabaseUpdate(): PATCH of the given properties and of the archived
\* flag; Notion stamps last_edited_time
pushDatabaseUpdate(pg, properties, page_id, archive) ==
    LET old == pg[page_id]
        new == [f \in DOMAIN old |->
                   IF f \in DOMAIN properties THEN properties[f]
                   ELSE IF f = "st" THEN (IF archive THEN "archived" ELSE "active")
                   ELSE IF f = "lastEdited" THEN RunTime
                   ELSE old[f]]
    IN [pg EXCEPT ![page_id] = new]

\* an update that leaves Event ID and Calendar ID as they are
keepEventReferences(pg, page_id) == pg

removeEventReferences(pg, page_id) ==
    pushDatabaseUpdate(pg, [eventId |-> NoId, calId |-> NoSel], page_id, FALSE)

updateDatabaseSyncTime(pg, page_id) ==
    pushDatabaseUpdate(pg, [lastSync |-> RunTime], page_id, FALSE)

\* ------------------------------------------------------ calendar access
\* calendar.getEventById(): the event is known to that calendar (a deleted
\* event still is, until Google purges it)
getEventById(ev, calendar_id, event_id) ==
    /\ event_id \in EventIds
    /\ ev[event_id].st \in {"live", "cancelled"}
    /\ ev[event_id].cal = calendar_id

\* a change of an event is listed by the next incremental listing of its calendar
Touch(tok, ev, event_id) ==
    IF tok.valid THEN [tok EXCEPT !.since = @ \cup {event_id}] ELSE tok

\* deleteEvent(): true iff the calendar and the event were found and
\* event.deleteEvent() did not throw (apiOk)
deleteEventOk(ev, event_id, calendar_id, apiOk) ==
    /\ calendar_id \in CalIds
    /\ getEventById(ev, calendar_id, event_id)
    /\ apiOk

deleteEventIn(ev, event_id, phase) ==
    [ev EXCEPT ![event_id].st = "cancelled", ![event_id].by = phase]

\* ---------------------------------------------------- DeletionProcessor
DeletedFilter(page) ==
    /\ IGNORE_SYNC_TAG_NAME \notin page.tags
    /\ page.eventId # NoId
    /\ DELETED_TAG_NAME \in page.tags

\* a "completed" query without the conditions on the Calendar name
CompletedFilterAnyCalendar(page) ==
    /\ IGNORE_SYNC_TAG_NAME \notin page.tags
    /\ page.eventId # NoId
    /\ page.status = COMPLETED_STATUS_NAME

CompletedFilter(page) ==
    /\ IGNORE_SYNC_TAG_NAME \notin page.tags
    /\ page.eventId # NoId
    /\ page.status = COMPLETED_STATUS_NAME
    /\ page.calName \notin CALENDARS_IGNORING_COMPLETED_DELETION

\* an update that archives in every case
DeletionArchives(pg, type, page_id) ==
    pushDatabaseUpdate(pg, <<>>, page_id, TRUE)

\* an update that leaves the event references of an entry that is kept
DeletionKeepsReferences(pg, type, page_id) ==
    IF type = "deleted" /\ ARCHIVE_DELETED_PAGES
    THEN pushDatabaseUpdate(pg, <<>>, page_id, TRUE)
    ELSE pg

\* the Notion update at the end of one iteration of processDeletedPages()
DeletionUpdate(pg, type, page_id) ==
    IF type = "deleted" /\ ARCHIVE_DELETED_PAGES
    THEN pushDatabaseUpdate(pg, <<>>, page_id, TRUE)
    ELSE removeEventReferences(pg, page_id)

\* a loop that forgets the `continue' after a failed deletion
AfterDeletionAlways(pg, type, page_id, delete_success) ==
    DeletionUpdate(pg, type, page_id)

\* the pages after deleteEvent() returned: a failed deletion skips the update
AfterDeletion(pg, type, page_id, delete_success) ==
    IF delete_success THEN DeletionUpdate(pg, type, page_id) ELSE pg

\* one iteration of the loop of processDeletedPages(type)
processDeletedPages(type) ==
    /\ pc = type
    /\ results # <<>>
    /\ results' = Tail(results)
    /\ LET result == Head(results)
           event_id == result.props.eventId
           calendar_id == result.props.calId
       IN IF ~isPageUpdatedRecently(result.props)
          THEN /\ last' = [op |-> "skip", page |-> result.id, event |-> NoId, ok |-> TRUE]
               /\ UNCHANGED <<pages, events, syncToken, faults, deleted_eIds,
                              completed_eIds>>
          ELSE IF event_id # NoId /\ calendar_id # NoSel
          THEN \E apiOk \in ApiOutcomes(deleteEventOk(events, event_id, calendar_id, TRUE)) :
                 LET delete_success == deleteEventOk(events, event_id, calendar_id, apiOk)
                 IN /\ last' = [op |-> "deleteEvent", page |-> result.id,
                                event |-> event_id, ok |-> delete_success]
                    /\ faults' = Charge(<<apiOk>>)
                    /\ pages' = AfterDeletion(pages, type, result.id, delete_success)
                    /\ IF delete_success
                       THEN /\ events' = deleteEventIn(events, event_id, type)
                            /\ syncToken' = Touch(syncToken, events, event_id)
                            /\ IF type = "deleted"
                               THEN /\ deleted_eIds' = deleted_eIds \cup {event_id}
                                    /\ UNCHANGED completed_eIds
                               ELSE /\ completed_eIds' = completed_eIds \cup {event_id}
                                    /\ UNCHANGED deleted_eIds
                       ELSE UNCHANGED <<events, syncToken, deleted_eIds, completed_eIds>>
          ELSE /\ last' = [op |-> "unlinked", page |-> result.id, event |-> NoId, ok |-> TRUE]
               /\ pages' = DeletionUpdate(pages, type, result.id)
               /\ UNCHANGED <<events, syncToken, faults, deleted_eIds, completed_eIds>>
    /\ UNCHANGED <<cfg, subject, edits, pc, dbIdx, entry, DATABASE_PROPERTIES_STORE, modified_eIds, ignored_eIds,
                   calsLeft, pull, requests, pushed, err>>

\* ------------------------------------------------------- EventPageMapper
\* CALENDAR_IDS[calendar_name], undefined for a name that is no key
CalendarIdOf(calendar_name) ==
    IF calendar_name \in CalNames THEN CALENDAR_IDS[calendar_name] ELSE Undefined

\* getBaseNotionProperties(): Last Sync (now), Event ID, Calendar ID, Calendar
getBaseNotionProperties(event_id, calendar_name) ==
    [lastSync |-> RunTime, eventId |-> event_id,
     calId |-> CalendarIdOf(calendar_name), calName |-> calendar_name]

\* new Date(string): a date-only string is UTC midnight, a date-time without
\* offset is local time
NewDate(x) ==
    IF x.kind = "date" THEN x.v * Day
    ELSE IF x.kind = "local" THEN x.v * Day - cfg.tz
    ELSE x.v
\* the calendar day of an instant, in the script's time zone and in UTC
LocalDay(t) == (t + cfg.tz) \div Day
UtcDay(t) == t \div Day
\* string.search(/([A-Z])/g) !== -1
HasUpperCase(x) == x.kind \in {"local", "time"}

\* a default duration of half an hour
HalfHour == 60 \div 2

\* minutes convertToGCalEvent() adds to the start of a timed page without end
DefaultDuration == 60

\* convertToGCalEvent(), for a page with a date (it returns null for NoDate)
convertToGCalEvent(page) ==
    LET dates == page.date
        first == dates.start # Null /\ ~HasUpperCase(dates.start)
        second == /\ ~first
                  /\ dates.end = Null /\ dates.start # Null /\ HasUpperCase(dates.start)
        third == /\ ~first /\ ~second
                 /\ dates.end # Null /\ ~HasUpperCase(dates.end)
    IN [id |-> page.eventId, summary |-> page.title, description |-> page.desc,
        start |-> IF first THEN LocalMidnight(dates.start.v) ELSE dates.start,
        end |-> IF second THEN DateTime(NewDate(dates.start) + DefaultDuration)
                ELSE IF third THEN LocalMidnight(dates.end.v)
                ELSE dates.end,
        all_day |-> IF first \/ third THEN TRUE
                    ELSE IF second THEN FALSE
                    ELSE dates.end = Null]

\* createEvent(): the dates createAllDayEvent() / createEvent() are called with
\* (an all-day event holds its first day and the day after its last)
createEventDates(event) ==
    LET start == NewDate(event.start)
        shifted_date == NewDate(event.end) + Day
    IN IF event.all_day
       THEN [all_day |-> TRUE, start |-> LocalDay(start),
             end |-> IF event.end # Null THEN LocalDay(shifted_date)
                     ELSE LocalDay(start) + 1]
       ELSE [all_day |-> FALSE, start |-> start, end |-> NewDate(event.end)]

\* pushEventUpdate(): setAllDayDates() / setAllDayDate() / setTime()
pushEventUpdateDates(event) ==
    LET start == NewDate(event.start)
        shifted_date == NewDate(event.end) + 2 * Day
    IN IF event.end # Null /\ event.all_day
       THEN [all_day |-> TRUE, start |-> LocalDay(start), end |-> LocalDay(shifted_date)]
       ELSE IF event.all_day
       THEN [all_day |-> TRUE, start |-> LocalDay(start), end |-> LocalDay(start) + 1]
       ELSE [all_day |-> FALSE, start |-> start, end |-> NewDate(event.end)]

\* convertToNotionProperty(): the Date property written for an event
convertToNotionDate(date) ==
    LET start_time == date.start * Day - cfg.tz
        end_time == date.end * Day - cfg.tz - Day
        start_day == UtcDay(start_time)
        end_day == UtcDay(end_time)
    IN IF date.all_day
       THEN [start |-> DateOnly(start_day),
             end |-> IF start_day = end_day THEN Null ELSE DateOnly(end_day)]
       ELSE [start |-> DateTime(date.start), end |-> DateTime(date.end)]

\* ------------------------------------------------------------- PushSync
\* a push query without the Ignore Sync condition
PushFilterAny(page) ==
    /\ DELETED_TAG_NAME \notin page.tags
    /\ doesDatabaseHaveStatus => page.status # COMPLETED_STATUS_NAME

\* a push query without the conditions on the DELETED tag and the status
PushFilterSyncable(page) == IGNORE_SYNC_TAG_NAME \notin page.tags

PushFilter(page) ==
    /\ IGNORE_SYNC_TAG_NAME \notin page.tags
    /\ DELETED_TAG_NAME \notin page.tags
    /\ doesDatabaseHaveStatus => page.status # COMPLETED_STATUS_NAME

\* sorts: last_edited_time, descending
RECURSIVE SortByEdited(_)
SortByEdited(rs) ==
    IF rs = {} THEN <<>>
    ELSE LET m == CHOOSE x \in rs : \A y \in rs :
                    \/ x.props.lastEdited > y.props.lastEdited
                    \/ x.props.lastEdited = y.props.lastEdited /\ x.id <= y.id
         IN <<m>> \o SortByEdited(rs \ {m})

PushQuery == LET q == Query(DATABASE_ID, {p \in PageIds : PushFilter(pages[p])}) IN SortByEdited({q[i] : i \in 1..Len(q)})

\* an identifier that an event of the calendar already has
UsedEventId(ev) == CHOOSE e \in EventIds : ev[e].st # "free"

\* the identifier Google Calendar gives the next new event
HasFreeId(ev) == \E e \in EventIds : ev[e].st = "free"
NewEventId(ev) == CHOOSE e \in EventIds : ev[e].st = "free" /\ \A f \in EventIds : ev[f].st = "free" => e <= f

\* createEvent() in Google Calendar: the new event, tagged with the database
createEventIn(ev, page_id, event, calendar_name) ==
    [ev EXCEPT ![NewEventId(ev)] =
        [st |-> "live", cal |-> CALENDAR_IDS[calendar_name], tag |-> DATABASE_ID,
         summary |-> event.summary, desc |-> event.description,
         date |-> createEventDates(event), bare |-> FALSE, page |-> page_id,
         by |-> "none"]]

\* pushEventUpdate() in Google Calendar: title, description and dates
pushEventUpdateIn(ev, event, event_id) ==
    [ev EXCEPT ![event_id].summary = event.summary,
               ![event_id].desc = event.description,
               ![event_id].date = pushEventUpdateDates(event)]

\* pushEventUpdate() returns true iff the event was found and no call threw
pushEventUpdateOk(ev, event_id, calendar_id, apiOk) ==
    /\ calendar_id \in CalIds
    /\ getEventById(ev, calendar_id, event_id)
    /\ apiOk

\* whether the move branch of syncToGCal() records the new event
\* a Calendar name that falls back to the default for every unlisted name
CalendarNameOrDefault(page) ==
    IF page.calName \in CalNames THEN page.calName ELSE DEFAULT_CALENDAR_NAME

\* `select?.name ?? DEFAULT_CALENDAR_NAME': the Calendar name of a page
CalendarNameOf(page) ==
    IF page.calName = NoSel THEN DEFAULT_CALENDAR_NAME ELSE page.calName

MoveRecorded(deleteSuccess, created) == deleteSuccess /\ created

\* one iteration of the loop of syncToGCal()
syncToGCal ==
    /\ pc = "push"
    /\ results # <<>>
    /\ results' = Tail(results)
    /\ LET result == Head(results)
           page == result.props
           event == convertToGCalEvent(page)
           calendar_id == page.calId
           calendar_name == CalendarNameOf(page)
       IN IF ~isPageUpdatedRecently(page)
          THEN /\ last' = [op |-> "skip", page |-> result.id, event |-> NoId, ok |-> TRUE]
               /\ UNCHANGED <<pages, events, syncToken, faults, modified_eIds, pushed>>
          ELSE IF page.date = NoDate    \* !event
          THEN IF page.eventId # NoId /\ calendar_id # NoSel
               THEN \E apiOk \in ApiOutcomes(deleteEventOk(events, page.eventId,
                                                           calendar_id, TRUE)) :
                      LET delete_success ==
                              deleteEventOk(events, page.eventId, calendar_id, apiOk)
                      IN /\ last' = [op |-> "nodate", page |-> result.id,
                                     event |-> page.eventId, ok |-> delete_success]
                         /\ faults' = Charge(<<apiOk>>)
                         /\ IF delete_success
                            THEN /\ events' = deleteEventIn(events, page.eventId, pc)
                                 /\ syncToken' = Touch(syncToken, events, page.eventId)
                                 /\ pages' = removeEventReferences(pages, result.id)
                            ELSE UNCHANGED <<pages, events, syncToken>>
                         /\ UNCHANGED <<modified_eIds, pushed>>
               ELSE /\ last' = [op |-> "nodate", page |-> result.id, event |-> NoId,
                                ok |-> TRUE]
                    /\ UNCHANGED <<pages, events, syncToken, faults, modified_eIds,
                                   pushed>>
          ELSE IF calendar_name \in CalNames /\ calendar_id # NoSel /\ event.id # NoId
          THEN IF calendar_id = CALENDAR_IDS[calendar_name]
               THEN \* update the event in its calendar
                    \E apiOk \in ApiOutcomes(pushEventUpdateOk(events, event.id,
                                                               calendar_id, TRUE)) :
                      LET updateSuccess ==
                              pushEventUpdateOk(events, event.id, calendar_id, apiOk)
                      IN /\ last' = [op |-> "update", page |-> result.id,
                                     event |-> event.id, ok |-> updateSuccess]
                         /\ faults' = Charge(<<apiOk>>)
                         /\ IF updateSuccess
                            THEN /\ events' = pushEventUpdateIn(events, event, event.id)
                                 /\ syncToken' = Touch(syncToken, events, event.id)
                                 /\ pages' = updateDatabaseSyncTime(pages, result.id)
                                 /\ modified_eIds' = modified_eIds \cup {event.id}
                                 /\ pushed' = pushed \cup {event.id}
                            ELSE UNCHANGED <<pages, events, syncToken, modified_eIds,
                                             pushed>>
               ELSE \* move: delete from the old calendar, create in the new one
                    \E delOk \in ApiOutcomes(deleteEventOk(events, event.id,
                                                           calendar_id, TRUE)),
                       createOk \in BOOLEAN :
                      LET deleteSuccess ==
                              deleteEventOk(events, event.id, calendar_id, delOk)
                          ev1 == IF deleteSuccess THEN deleteEventIn(events, event.id, pc)
                                 ELSE events
                          tok1 == IF deleteSuccess THEN Touch(syncToken, events, event.id)
                                  ELSE syncToken
                          new_id == NewEventId(ev1)
                          ev2 == createEventIn(ev1, result.id, event, calendar_name)
                      IN /\ createOk => HasFreeId(ev1)
                         /\ ~createOk /\ HasFreeId(ev1) => Charge(<<delOk>>) < MaxFaults
                         /\ faults' = Charge(<<delOk, createOk \/ ~HasFreeId(ev1)>>)
                         /\ last' = [op |-> "move", page |-> result.id,
                                     event |-> IF createOk THEN new_id ELSE NoId,
                                     ok |-> deleteSuccess /\ createOk]
                         /\ IF createOk
                            THEN /\ events' = ev2
                                 /\ syncToken' = Touch(tok1, ev2, new_id)
                                 /\ pages' = updateDatabaseSyncTime(
                                       pushDatabaseUpdate(pages,
                                           getBaseNotionProperties(new_id, calendar_name),
                                           result.id, FALSE),
                                       result.id)
                                 /\ pushed' = pushed \cup {new_id}
                            ELSE /\ events' = ev1
                                 /\ syncToken' = tok1
                                 /\ pages' = updateDatabaseSyncTime(pages, result.id)
                                 /\ UNCHANGED pushed
                         /\ modified_eIds' =
                                IF MoveRecorded(deleteSuccess, createOk)
                                THEN modified_eIds \cup {new_id} ELSE modified_eIds
          ELSE IF calendar_name \in CalNames
          THEN \* create the event
               \E createOk \in BOOLEAN :
                 LET new_id == NewEventId(events)
                     ev2 == createEventIn(events, result.id, event, calendar_name)
                 IN /\ createOk => HasFreeId(events)
                    /\ ~createOk /\ HasFreeId(events) => faults < MaxFaults
                    /\ faults' = Charge(<<createOk \/ ~HasFreeId(events)>>)
                    /\ last' = [op |-> "create", page |-> result.id,
                                event |-> IF createOk THEN new_id ELSE NoId,
                                ok |-> createOk]
                    /\ IF createOk
                       THEN /\ events' = ev2
                            /\ syncToken' = Touch(syncToken, ev2, new_id)
                            /\ pages' = pushDatabaseUpdate(pages,
                                            getBaseNotionProperties(new_id, calendar_name),
                                            result.id, FALSE)
                            /\ modified_eIds' = modified_eIds \cup {new_id}
                            /\ pushed' = pushed \cup {new_id}
                       ELSE UNCHANGED <<pages, events, syncToken, modified_eIds, pushed>>
          ELSE /\ last' = [op |-> "nocal", page |-> result.id, event |-> NoId, ok |-> TRUE]
               /\ UNCHANGED <<pages, events, syncToken, faults, modified_eIds, pushed>>
    /\ UNCHANGED <<cfg, subject, edits, pc, dbIdx, entry, DATABASE_PROPERTIES_STORE, deleted_eIds, completed_eIds,
                   ignored_eIds, calsLeft, pull, requests, err>>

\* ------------------------------------------------------------- PullSync
MAX_PAGE_COUNT == 2             \* events per page of Calendar.Events.list

Stored(tok) == tok.cal # NoSel

\* the summary of a listed event: a deleted event may come without one
SummaryOf(event) == IF event.st = "cancelled" /\ event.bare THEN Undefined ELSE event.summary

\* getPageFromEvent(): the pages of the current database with that Event ID
\* and without the Ignore Sync tag
PagesOfEvent(pg, event_id) ==
    {p \in PageIds : /\ pg[p].st = "active"
                     /\ pg[p].db = DATABASE_ID
                     /\ pg[p].eventId = event_id
                     /\ IGNORE_SYNC_TAG_NAME \notin pg[p].tags}
PageFound(pg, event_id) == PagesOfEvent(pg, event_id) # {}
getPageFromEvent(pg, event_id) ==
    CHOOSE p \in PagesOfEvent(pg, event_id) : \A q \in PagesOfEvent(pg, event_id) : p <= q

\* convertToNotionProperty(event, existing_tags)
convertToNotionProperty(event_id, event, cal_name, existing_tags) ==
    LET base == getBaseNotionProperties(event_id, cal_name)
        content == [title |-> event.summary, date |-> convertToNotionDate(event.date),
                    desc |-> event.desc]
        all == [f \in DOMAIN base \cup DOMAIN content |->
                   IF f \in DOMAIN base THEN base[f] ELSE content[f]]
        cancelled == [eventId |-> NoId, calId |-> NoSel]
        tagged == [tags |-> existing_tags \cup {DELETED_TAG_NAME}]
    IN IF event.st # "cancelled" THEN all
       ELSE [f \in DOMAIN all \cup (IF TAG_CANCELLED_EVENTS THEN {"tags"} ELSE {}) |->
                IF f \in DOMAIN cancelled THEN cancelled[f]
                ELSE IF f = "tags" THEN tagged[f]
                ELSE all[f]]

\* checkNotionProperties(): the description has at most 2000 characters
checkNotionProperties(properties) == ~(properties.desc > 2000)

\* updateDatabaseEntry(): the PATCH request for a page
updateDatabaseEntry(event_id, event, cal_name, page_id, existing_tags) ==
    [page_id |-> page_id,
     properties |-> convertToNotionProperty(event_id, event, cal_name, existing_tags),
     archive |-> event.st = "cancelled" /\ TAG_CANCELLED_EVENTS /\ ARCHIVE_DELETED_PAGES]

\* UrlFetchApp.fetchAll(requests): the batch applied in order
RECURSIVE fetchAll(_, _)
fetchAll(pg, reqs) ==
    IF reqs = <<>> THEN pg
    ELSE fetchAll(pushDatabaseUpdate(pg, Head(reqs).properties, Head(reqs).page_id,
                                     Head(reqs).archive),
                  Tail(reqs))

\* an invocation ends: by an error thrown out of main(), or after the last database
EndRun(e) ==
    /\ pc' = "idle"
    /\ err' = e
    /\ pages' = Rebase(pages)
    /\ dbIdx' = 1
    /\ entry' = "none"
    /\ DATABASE_PROPERTIES_STORE' = NoStore
    /\ results' = <<>>
    /\ deleted_eIds' = {}
    /\ completed_eIds' = {}
    /\ modified_eIds' = {}
    /\ ignored_eIds' = {}
    /\ pushed' = {}
    /\ calsLeft' = <<>>
    /\ pull' = NoPull
    /\ requests' = <<>>

\* an iteration of the loop of syncToGCal() in which createEvent() has made
\* the event and its pushDatabaseUpdate() fails: UrlFetchApp.fetch() throws
\* (muteHttpExceptions: false) and nothing catches it
syncToGCalThrows ==
    /\ pc = "push"
    /\ results # <<>>
    /\ faults < MaxFaults
    /\ HasFreeId(events)
    /\ LET result == Head(results)
           page == result.props
           event == convertToGCalEvent(page)
           calendar_name == CalendarNameOf(page)
           new_id == NewEventId(events)
       IN /\ isPageUpdatedRecently(page)
          /\ page.date # NoDate
          /\ ~(calendar_name \in CalNames /\ page.calId # NoSel /\ event.id # NoId)
          /\ calendar_name \in CalNames
          /\ events' = createEventIn(events, result.id, event, calendar_name)
          /\ syncToken' = Touch(syncToken, events', new_id)
          /\ last' = [op |-> "writeback", page |-> result.id, event |-> new_id,
                      ok |-> FALSE]
    /\ faults' = faults + 1
    /\ EndRun("NotionError")
    /\ UNCHANGED <<cfg, subject, edits>>

\* new Date(): the instants an invocation may read the clock at (one day, at
\* midnight and in the afternoon)
Today == 9
Clock == {Today * Day - cfg.tz, Today * Day - cfg.tz + 15 * 60}

\* getRelativeDate(): the day `daysOffset' days from the current one, at `hour'
getRelativeDate(now, daysOffset, hour) ==
    (LocalDay(now) + daysOffset) * Day + hour * 60 - cfg.tz

SYNC_RELATIVE_MAX_DAYS == 1825
SYNC_RELATIVE_MIN_DAYS == 30

\* options that carry the cursor and the window at once
ListOptionsBoth(tok, fullSync, now) ==
    [syncToken |-> IF Stored(tok) THEN {tok.cal} ELSE {},
     timeMin |-> {getRelativeDate(now, -SYNC_RELATIVE_MIN_DAYS, 0)},
     timeMax |-> {getRelativeDate(now, SYNC_RELATIVE_MAX_DAYS, 0)}]

\* the options syncFromGCal() builds before its first request: the stored
\* cursor, or timeMin and timeMax (a field the code leaves out is empty)
ListOptions(tok, fullSync, now) ==
    IF Stored(tok) /\ ~fullSync
    THEN [syncToken |-> {tok.cal}, timeMin |-> {}, timeMax |-> {}]
    ELSE [syncToken |-> {},
          timeMin |-> {getRelativeDate(now, -SYNC_RELATIVE_MIN_DAYS, 0)},
          timeMax |-> {getRelativeDate(now, SYNC_RELATIVE_MAX_DAYS, 0)}]

\* the instants an event begins and ends at
EventStart(event) ==
    IF event.date.all_day THEN event.date.start * Day - cfg.tz ELSE event.date.start
EventEnd(event) ==
    IF event.date.all_day THEN event.date.end * Day - cfg.tz ELSE event.date.end

\* Calendar.Events.list(): the events one listing returns, all pages together;
\* timeMin bounds the end of an event from below, timeMax its start from above
Listing(calendar_id, options) ==
    {e \in (IF options.syncToken # {} THEN syncToken.since ELSE EventIds) :
        /\ events[e].cal = calendar_id
        /\ events[e].st \in (IF options.syncToken # {} THEN {"live", "cancelled"}
                              ELSE {"live"})
        /\ \A t \in options.timeMin : EventEnd(events[e]) > t
        /\ \A t \in options.timeMax : EventStart(events[e]) < t}

Take(sq, n) == SubSeq(sq, 1, IF Len(sq) < n THEN Len(sq) ELSE n)
Drop(sq, n) == SubSeq(sq, (IF Len(sq) < n THEN Len(sq) ELSE n) + 1, Len(sq))

\* the argument of the retry after a rejected sync token
RetryArgument(cal_name) == CALENDAR_IDS[cal_name]

\* a listing that is not filtered by the NotionDB tag
TagFilterAny(event) == TRUE

\* events.items.filter(...): the events tagged with the current database
TagFilter(event) == event.tag = DATABASE_ID

\* `syncToken && !fullSync': the listing sends the stored cursor
UsesToken == Stored(syncToken) /\ ~pull.fullSync

\* the events the running syncFromGCal() call has still to list, in the
\* order of the pages
PageChain ==
    IF pull.first THEN SeqOfSet(Listing(CALENDAR_IDS[pull.cal_name], pull.options))
    ELSE pull.pageToken

\* maxResults: MAX_PAGE_COUNT bounds a page from above; the server may
\* return fewer events on a page than that (under switches other than the
\* shipped ones only pages of one event are followed)
PageLengths == IF cfg = DefaultCfg THEN 1..MAX_PAGE_COUNT ELSE {1}

\* syncFromGCal(): one Calendar.Events.list call with what follows it up to
\* parseEvents()
syncFromGCal ==
    /\ pc = "list"
    /\ LET cal_name == pull.cal_name
           useToken == UsesToken
       IN IF cal_name \notin CalNames
          THEN \* `Calendar "..." not found`
               /\ EndRun("CalendarNotFound")
               /\ last' = [op |-> "list", page |-> 0, event |-> NoId, ok |-> FALSE]
               /\ UNCHANGED <<syncToken, faults>>
          ELSE \E reject \in BOOLEAN :
               /\ reject => pull.first /\ useToken
               /\ (pull.first /\ useToken /\ ~syncToken.valid) => reject
               /\ (reject /\ syncToken.valid) =>
                      /\ syncToken.cal # CALENDAR_IDS[cal_name]
                      /\ faults < MaxFaults
               /\ faults' = IF reject /\ syncToken.valid THEN faults + 1 ELSE faults
               /\ IF reject
                  THEN \* "Sync token is no longer valid, a full sync is required."
                       /\ syncToken' = NoToken
                       /\ \E now \in Clock :
                            pull' = [NoPull EXCEPT
                                        !.cal_name = RetryArgument(cal_name),
                                        !.fullSync = TRUE, !.retry = TRUE,
                                        !.options = ListOptions(NoToken, TRUE, now)]
                       /\ last' = [op |-> "rejected", page |-> 0, event |-> NoId, ok |-> FALSE]
                       /\ UNCHANGED <<pc, err, results, calsLeft, requests, pages, Sets>>
                  ELSE \E n \in PageLengths :
                       LET chain == PageChain
                           listed == Take(chain, n)
                           items == SelectSeq(listed, LAMBDA e : TagFilter(events[e]))
                       IN /\ last' = [op |-> "list", page |-> 0, event |-> NoId, ok |-> TRUE]
                          /\ UNCHANGED <<pages, syncToken, err, results, calsLeft, requests, Sets>>
                          /\ IF items = <<>>
                             THEN \* no relevant events: return
                                  /\ pc' = "pull"
                                  /\ pull' = NoPull
                             ELSE /\ pc' = "parse"
                                  /\ pull' = [pull EXCEPT !.first = FALSE, !.items = items,
                                                 !.pageToken = Drop(chain, n)]
    /\ UNCHANGED <<cfg, subject, events, edits>>

\* a handler that catches no error
handleEventCancelledCatchesNone(e) == FALSE

\* handleEventCancelled(): `e instanceof PageNotFoundError' is caught
handleEventCancelledCatches(e) == e = "PageNotFoundError"

\* parseEvents(): one iteration of its loop
parseEvents ==
    /\ pc = "parse"
    /\ pull.items # <<>>
    /\ LET e == Head(pull.items)
           event == events[e]
           found == PageFound(pages, e)
           page_id == getPageFromEvent(pages, e)
           next == [pull EXCEPT !.items = Tail(@)]
       IN IF SummaryOf(event) = Undefined
          THEN /\ last' = [op |-> "artifact", page |-> 0, event |-> e, ok |-> TRUE]
               /\ pull' = next
               /\ UNCHANGED <<pages, requests, pc, err, results, calsLeft, Sets>>
          ELSE IF e \in ignored_eIds
          THEN /\ last' = [op |-> "ignored", page |-> 0, event |-> e, ok |-> TRUE]
               /\ pull' = next
               /\ UNCHANGED <<pages, requests, pc, err, results, calsLeft, Sets>>
          ELSE IF event.st = "cancelled"
          THEN \* handleEventCancelled(): a missing page is skipped
               IF found
               THEN LET r == updateDatabaseEntry(e, event, pull.cal_name, page_id, {})
                    IN /\ pull' = next
                       /\ pages' = pushDatabaseUpdate(pages, r.properties, r.page_id,
                                                      r.archive)
                       /\ last' = [op |-> "cancelled", page |-> page_id, event |-> e,
                                   ok |-> TRUE]
                       /\ UNCHANGED <<requests, pc, err, results, calsLeft, Sets>>
               ELSE IF handleEventCancelledCatches("PageNotFoundError")
               THEN /\ pull' = next
                    /\ last' = [op |-> "cancelled", page |-> 0, event |-> e, ok |-> FALSE]
                    /\ UNCHANGED <<pages, requests, pc, err, results, calsLeft, Sets>>
               ELSE /\ EndRun("PageNotFoundError")
                    /\ last' = [op |-> "notfound", page |-> 0, event |-> e, ok |-> FALSE]
          ELSE IF found
          THEN /\ pull' = next
               /\ requests' = Append(requests,
                     updateDatabaseEntry(e, event, pull.cal_name, page_id,
                                         pages[page_id].tags))
               /\ last' = [op |-> "queued", page |-> page_id, event |-> e, ok |-> TRUE]
               /\ UNCHANGED <<pages, pc, err, results, calsLeft, Sets>>
          ELSE \* getPageFromEvent() throws PageNotFoundError
               /\ EndRun("PageNotFoundError")
               /\ last' = [op |-> "notfound", page |-> 0, event |-> e, ok |-> FALSE]
    /\ UNCHANGED <<cfg, subject, events, syncToken, edits, faults>>

\* a loop that stores the cursor after every page
CursorDueAlways(pageToken) == TRUE

\* `while (pageToken)' has ended: properties.setProperty("syncToken", ...) runs
CursorDue(pageToken) == pageToken = <<>>

\* the end of parseEvents(): the batch is sent; then the next page is
\* listed or, after the last page, the sync token is stored
parseEventsSubmit ==
    /\ pc = "parse"
    /\ pull.items = <<>>
    /\ pages' = fetchAll(pages, requests)
    /\ requests' = <<>>
    /\ last' = [op |-> "submit", page |-> 0, event |-> NoId, ok |-> TRUE]
    /\ IF pull.pageToken # <<>>
       THEN /\ pc' = "list"
            /\ UNCHANGED pull
       ELSE /\ pc' = "pull"
            /\ pull' = NoPull
    /\ syncToken' = IF CursorDue(pull.pageToken)
                    THEN [cal |-> CalendarIdOf(pull.cal_name), since |-> {},
                          valid |-> TRUE]
                    ELSE syncToken
    /\ UNCHANGED <<cfg, subject, events, edits, faults, dbIdx, entry, DATABASE_PROPERTIES_STORE, results, deleted_eIds,
                   completed_eIds, modified_eIds, ignored_eIds, calsLeft, pushed, err>>

\* ----------------------------------------------------------------- main
\* Object.keys(CALENDAR_IDS)
CalendarOrder == <<"Primary", "Exams">>

\* calendars that are pulled whatever the database
CalendarsOfAny(i) == CalendarOrder

\* the calendars main() and fullSync() call syncFromGCal() for, for database i
CalendarsOf(i) ==
    IF retrieveDatabaseKeys[i] \in DATABASES_IGNORING_GCAL_UPDATES THEN <<>>
    ELSE CalendarOrder

\* the loop of fullSync() reaches database i
StartPull(i) ==
    /\ dbIdx' = i
    /\ entry' = "fullSync"
    /\ DATABASE_PROPERTIES_STORE' =
           storeDatabaseProperties(DATABASE_PROPERTIES_STORE, DbIdOf[retrieveDatabaseKeys[i]])
    /\ pc' = "pull"
    /\ results' = <<>>
    /\ deleted_eIds' = {}
    /\ completed_eIds' = {}
    /\ modified_eIds' = {}
    /\ ignored_eIds' = {}
    /\ pushed' = {}
    /\ calsLeft' = CalendarsOf(i)
    /\ pull' = NoPull
    /\ requests' = <<>>

\* fullSync(): every calendar of every database is pulled with fullSync = true
\* and an empty suppression set
fullSync ==
    /\ pc = "idle"
    /\ err' = "none"
    /\ last' = [op |-> "fullSync", page |-> 0, event |-> NoId, ok |-> TRUE]
    /\ StartPull(1)
    /\ UNCHANGED <<cfg, subject, pages, events, syncToken, edits, faults>>

\* a loop that turns to the push at once
StartDbAtPush(i) ==
    /\ dbIdx' = i
    /\ entry' = "main"
    /\ DATABASE_PROPERTIES_STORE' =
           storeDatabaseProperties(DATABASE_PROPERTIES_STORE, DbIdOf[retrieveDatabaseKeys[i]])
    /\ pc' = "push"
    /\ results' = <<>>
    /\ deleted_eIds' = {}
    /\ completed_eIds' = {}
    /\ modified_eIds' = {}
    /\ ignored_eIds' = {}
    /\ pushed' = {}
    /\ calsLeft' = <<>>
    /\ pull' = NoPull
    /\ requests' = <<>>

\* the loop of main() reaches database i: processDeletedPages("deleted") queries
StartDb(i) ==
    /\ dbIdx' = i
    /\ entry' = "main"
    /\ DATABASE_PROPERTIES_STORE' =
           storeDatabaseProperties(DATABASE_PROPERTIES_STORE, DbIdOf[retrieveDatabaseKeys[i]])
    /\ pc' = "deleted"
    /\ results' = Query(DbIdOf[retrieveDatabaseKeys[i]], {p \in PageIds : DeletedFilter(pages[p])})
    /\ deleted_eIds' = {}
    /\ completed_eIds' = {}
    /\ modified_eIds' = {}
    /\ ignored_eIds' = {}
    /\ pushed' = {}
    /\ calsLeft' = <<>>
    /\ pull' = NoPull
    /\ requests' = <<>>

main ==
    /\ pc = "idle"
    /\ err' = "none"
    /\ last' = [op |-> "main", page |-> 0, event |-> NoId, ok |-> TRUE]
    /\ StartDb(1)
    /\ UNCHANGED <<cfg, subject, pages, events, syncToken, edits, faults>>

\* processDeletedPages("deleted") returns; processDeletedPages("completed")
\* queries, or returns nothing when the database has no Status property
DeletedDone ==
    /\ pc = "deleted"
    /\ results = <<>>
    /\ last' = [op |-> "deletedDone", page |-> 0, event |-> NoId, ok |-> TRUE]
    /\ IF doesDatabaseHaveStatus
       THEN /\ pc' = "completed"
            /\ results' = Query(DATABASE_ID, {p \in PageIds : CompletedFilter(pages[p])})
            /\ UNCHANGED completed_eIds
       ELSE /\ pc' = "push"
            /\ results' = PushQuery
            /\ completed_eIds' = UndefinedSet
    /\ UNCHANGED <<cfg, subject, pages, events, syncToken, edits, faults, dbIdx, entry, DATABASE_PROPERTIES_STORE, deleted_eIds,
                   modified_eIds, ignored_eIds, calsLeft, pull, requests, pushed, err>>

\* processDeletedPages("completed") returns; syncToGCal() queries
CompletedDone ==
    /\ pc = "completed"
    /\ results = <<>>
    /\ pc' = "push"
    /\ results' = PushQuery
    /\ last' = [op |-> "completedDone", page |-> 0, event |-> NoId, ok |-> TRUE]
    /\ UNCHANGED <<cfg, subject, pages, events, syncToken, edits, faults, dbIdx, entry, DATABASE_PROPERTIES_STORE, deleted_eIds,
                   completed_eIds, modified_eIds, ignored_eIds, calsLeft, pull,
                   requests, pushed, err>>

\* the suppression set main() hands to syncFromGCal()
IgnoredSet(deleted, completed, modified) ==
    deleted \cup completed \cup (IF IGNORE_RECENTLY_PUSHED THEN modified ELSE {})

\* syncToGCal() returns; main() builds ignored_eIds and turns to the calendars
PushDone ==
    /\ pc = "push"
    /\ results = <<>>
    /\ last' = [op |-> "pushDone", page |-> 0, event |-> NoId, ok |-> TRUE]
    /\ IF completed_eIds = UndefinedSet
       THEN \* spreading undefined: TypeError
            EndRun("TypeError")
       ELSE /\ ignored_eIds' = IgnoredSet(deleted_eIds, completed_eIds, modified_eIds)
            /\ pc' = "pull"
            /\ calsLeft' = CalendarsOf(dbIdx)
            /\ UNCHANGED <<pages, results, pull, requests, err, dbIdx, entry, DATABASE_PROPERTIES_STORE, deleted_eIds,
                           completed_eIds, modified_eIds, pushed>>
    /\ UNCHANGED <<cfg, subject, events, syncToken, edits, faults>>

\* a caller that never asks for a full sync
FullSyncNeverRequested == FALSE

\* the fullSync argument of syncFromGCal(): false in main(), true in fullSync()
FullSyncRequested == entry = "fullSync"

\* main() calls syncFromGCal(cal_name, false, ignored_eIds), fullSync() calls
\* syncFromGCal(cal_name, true, new Set())
NextCalendar ==
    /\ pc = "pull"
    /\ calsLeft # <<>>
    /\ pc' = "list"
    /\ \E now \in Clock :
         pull' = [NoPull EXCEPT
                     !.cal_name = Head(calsLeft),
                     !.fullSync = FullSyncRequested,
                     !.options = ListOptions(syncToken, FullSyncRequested, now)]
    /\ calsLeft' = Tail(calsLeft)
    /\ last' = [op |-> "syncFromGCal", page |-> 0, event |-> NoId, ok |-> TRUE]
    /\ UNCHANGED <<cfg, subject, pages, events, syncToken, edits, faults, dbIdx, entry, DATABASE_PROPERTIES_STORE, results,
                   deleted_eIds, completed_eIds, modified_eIds, ignored_eIds,
                   requests, pushed, err>>

\* the database is finished: the next one, or the end of main()
DbDone ==
    /\ pc = "pull"
    /\ calsLeft = <<>>
    /\ last' = [op |-> "dbDone", page |-> 0, event |-> NoId, ok |-> TRUE]
    /\ IF dbIdx < Len(retrieveDatabaseKeys)
       THEN /\ IF entry = "fullSync" THEN StartPull(dbIdx + 1) ELSE StartDb(dbIdx + 1)
            /\ UNCHANGED <<pages, err>>
       ELSE EndRun("none")
    /\ UNCHANGED <<cfg, subject, events, syncToken, edits, faults>>

\* ------------------------------------------------------------ the users
UserEdit(p, props) ==
    /\ pc = "idle"
    /\ edits < MaxEdits
    /\ p = subject
    /\ pages[p].st = "active"
    /\ edits' = edits + 1
    /\ pages' = [pages EXCEPT ![p] =
                    [f \in DOMAIN @ |-> IF f \in DOMAIN props THEN props[f]
                                        ELSE IF f = "lastEdited" THEN EditTime
                                        ELSE @[f]]]
    /\ last' = Idle
    /\ err' = "none"
    /\ UNCHANGED <<cfg, subject, events, syncToken, faults, pc, dbIdx, entry, DATABASE_PROPERTIES_STORE, results, deleted_eIds,
                   completed_eIds, modified_eIds, ignored_eIds, calsLeft, pull,
                   requests, pushed>>

UserTags(p) == \E t \in TagNames \ pages[p].tags : UserEdit(p, [tags |-> pages[p].tags \cup {t}])
UserStatus(p) ==
    /\ pages[p].db \in cfg.statusProp
    /\ UserEdit(p, [status |-> IF pages[p].status = OpenStatus THEN COMPLETED_STATUS_NAME
                               ELSE OpenStatus])
UserCalendar(p) ==
    \E n \in (CalNames \cup {UnknownCalName}) \ {pages[p].calName} :
        /\ pages[p].calName = NoSel => n # DEFAULT_CALENDAR_NAME
        /\ UserEdit(p, [calName |-> n])
UserDate(p) == \E d \in Dates \ {pages[p].date} : UserEdit(p, [date |-> d])

UserEvent(e, change) ==
    /\ pc = "idle"
    /\ edits < MaxEdits
    /\ pages[subject].eventId = e
    /\ events[e].st = "live"
    /\ edits' = edits + 1
    /\ events' = [events EXCEPT ![e] =
                     [f \in DOMAIN @ |-> IF f \in DOMAIN change THEN change[f] ELSE @[f]]]
    /\ syncToken' = Touch(syncToken, events, e)
    /\ last' = Idle
    /\ err' = "none"
    /\ UNCHANGED <<cfg, subject, pages, faults, pc, dbIdx, entry, DATABASE_PROPERTIES_STORE, results, deleted_eIds, completed_eIds,
                   modified_eIds, ignored_eIds, calsLeft, pull, requests, pushed>>

\* the user rewrites the description of an event
UserDescribes(e) == \E d \in DescLens \ {events[e].desc} : UserEvent(e, [desc |-> d])
\* the user deletes an event; the listing shows it cancelled, with or without
\* its data, until Google purges it
UserDeletes(e) ==
    \/ \E b \in BOOLEAN : UserEvent(e, [st |-> "cancelled", bare |-> b])
    \/ UserEvent(e, [st |-> "purged"])

\* while the user works on the page of the second database, the event of the
\* first database is rewritten in Google Calendar too (under the shipped
\* switches only)
UserDescribesOther ==
    /\ pc = "idle"
    /\ edits < MaxEdits
    /\ subject = 2
    /\ cfg = DefaultCfg
    /\ \E e \in EventIds \ {pages[subject].eventId} :
         /\ pages[1].eventId = e
         /\ events[e].st = "live"
         /\ \E d \in DescLens \ {events[e].desc} :
              events' = [events EXCEPT ![e].desc = d]
         /\ syncToken' = Touch(syncToken, events, e)
    /\ edits' = edits + 1
    /\ last' = Idle
    /\ err' = "none"
    /\ UNCHANGED <<cfg, subject, pages, faults, pc, dbIdx, entry, DATABASE_PROPERTIES_STORE, results, deleted_eIds, completed_eIds,
                   modified_eIds, ignored_eIds, calsLeft, pull, requests, pushed>>

\* the server stops accepting the stored sync token
TokenExpires ==
    /\ pc = "idle"
    /\ faults < MaxFaults
    /\ Stored(syncToken) /\ syncToken.valid
    /\ faults' = faults + 1
    /\ syncToken' = [syncToken EXCEPT !.valid = FALSE]
    /\ last' = Idle
    /\ err' = "none"
    /\ UNCHANGED <<cfg, subject, pages, events, edits, pc, dbIdx, entry, DATABASE_PROPERTIES_STORE, results, deleted_eIds,
                   completed_eIds, modified_eIds, ignored_eIds, calsLeft, pull,
                   requests, pushed>>

\* ---------------------------------------------------------------- Init
\* a page the user has just written
NewPage(db) ==
    [AbsentPage EXCEPT !.st = "active", !.db = db, !.date = OneDay, !.lastEdited = EditTime]

\* a page and its event as an earlier invocation left them (createEvent())
SyncedPage(db, calendar_name, event_id) ==
    [NewPage(db) EXCEPT !.calName = calendar_name, !.eventId = event_id,
                        !.calId = CALENDAR_IDS[calendar_name],
                        !.lastSync = SyncedTime, !.lastEdited = SyncedTime]
SyncedEvent(db, calendar_name, page_id) ==
    [FreeEvent EXCEPT !.st = "live", !.cal = CALENDAR_IDS[calendar_name], !.tag = db,
                      !.page = page_id,
                      !.date = [all_day |-> TRUE, start |-> 10, end |-> 11]]

\* The first database holds a page that is synchronised with event 1.  A
\* second page is new in the first database, or is synchronised with event 2
\* in the second database; the user works on one synchronised page (on the
\* one of the second database under the shipped switches only).
Init ==
    /\ \E second \in DbIds :
         /\ cfg \in IF second = "D2" THEN Configs ELSE {DefaultCfg}
         /\ subject \in IF second = "D2" /\ cfg \in DatabaseConfigs \cup {DefaultCfg}
                        THEN {1, 2} ELSE {1}
         /\ pages = [p \in PageIds |->
                       IF p = 1 THEN SyncedPage("D1", DEFAULT_CALENDAR_NAME, 1)
                       ELSE IF p = 2
                       THEN (IF second = "D2" THEN SyncedPage("D2", DEFAULT_CALENDAR_NAME, 2)
                             ELSE NewPage("D1"))
                       ELSE AbsentPage]
         /\ events = [e \in EventIds |->
                        IF e = 1 THEN SyncedEvent("D1", DEFAULT_CALENDAR_NAME, 1)
                        ELSE IF e = 2 /\ second = "D2"
                        THEN SyncedEvent("D2", DEFAULT_CALENDAR_NAME, 2)
                        ELSE FreeEvent]
    /\ syncToken = NoToken
    /\ faults = 0
    /\ edits = 0
    /\ pc = "idle"
    /\ dbIdx = 1
    /\ entry = "none"
    /\ DATABASE_PROPERTIES_STORE = NoStore
    /\ results = <<>>
    /\ deleted_eIds = {}
    /\ completed_eIds = {}
    /\ modified_eIds = {}
    /\ ignored_eIds = {}
    /\ calsLeft = <<>>
    /\ pull = NoPull
    /\ requests = <<>>
    /\ pushed = {}
    /\ last = Idle
    /\ err = "none"

Next ==
    \/ main
    \/ fullSync
    \/ processDeletedPages("deleted")
    \/ DeletedDone
    \/ processDeletedPages("completed")
    \/ CompletedDone
    \/ syncToGCal
    \/ syncToGCalThrows
    \/ PushDone
    \/ NextCalendar
    \/ syncFromGCal
    \/ parseEvents
    \/ parseEventsSubmit
    \/ DbDone
    \/ \E p \in PageIds : UserTags(p) \/ UserStatus(p) \/ UserCalendar(p)
                            \/ UserDate(p)
    \/ \E e \in EventIds : UserDescribes(e) \/ UserDeletes(e)
    \/ UserDescribesOther
    \/ TokenExpires

Spec == Init /\ [][Next]_vars

\* ------------------------------------------------ the date mapping alone
\* One page with a date a user can give it, in a script of some time zone;
\* createEvent() makes its event, and then the event is pulled into the page
\* and the page pushed into the event, MaxMapSteps operations in all.
\* `requests' lists the operations made, `results' holds the page as the
\* user wrote it.
MaxMapSteps == 3
Offsets == {-300, 0, 120}
MapDates ==
    {[start |-> DateOnly(s), end |-> IF k = 0 THEN Null ELSE DateOnly(s + k)] :
        s \in {10, 20}, k \in 0..2}
    \cup {[start |-> DateTime(10 * Day + m),
           end |-> IF k = 0 THEN Null ELSE DateTime(10 * Day + m + k)] :
            m \in {600, 1430}, k \in {0, 30}}

InitMap ==
    /\ cfg \in {[DefaultCfg EXCEPT !.tz = o] : o \in Offsets}
    /\ subject = 1
    /\ \E d \in MapDates :
         pages = [p \in PageIds |-> IF p = 1 THEN [NewPage("D1") EXCEPT !.date = d]
                                    ELSE AbsentPage]
    /\ events = [e \in EventIds |-> FreeEvent]
    /\ syncToken = NoToken
    /\ faults = 0
    /\ edits = 0
    /\ pc = "map"
    /\ dbIdx = 1
    /\ entry = "none"
    /\ DATABASE_PROPERTIES_STORE = NoStore
    /\ results = <<>>
    /\ deleted_eIds = {}
    /\ completed_eIds = {}
    /\ modified_eIds = {}
    /\ ignored_eIds = {}
    /\ calsLeft = <<>>
    /\ pull = NoPull
    /\ requests = <<>>
    /\ pushed = {}
    /\ last = Idle
    /\ err = "none"

MapStep(op) ==
    /\ edits < MaxMapSteps
    /\ edits' = edits + 1
    /\ requests' = Append(requests, op)
    /\ last' = [op |-> op, page |-> 1, event |-> 1, ok |-> TRUE]
    /\ UNCHANGED <<cfg, subject, syncToken, faults, pc, dbIdx, entry, DATABASE_PROPERTIES_STORE, deleted_eIds,
                   completed_eIds, modified_eIds, ignored_eIds, calsLeft, pull, pushed,
                   err>>

\* createEvent(page, event, calendar_name) for the page
createEvent ==
    /\ events[1].st = "free"
    /\ MapStep("create")
    /\ events' = createEventIn(events, 1, convertToGCalEvent(pages[1]),
                             DEFAULT_CALENDAR_NAME)
    /\ pages' = pushDatabaseUpdate(pages,
                    getBaseNotionProperties(NewEventId(events), DEFAULT_CALENDAR_NAME),
                    1, FALSE)
    /\ results' = <<[id |-> 1, props |-> pages[1]]>>

\* updateDatabaseEntry(event, page_id, existing_tags) for the event of the page
pullEvent ==
    /\ events[1].st = "live"
    /\ MapStep("pull")
    /\ pages' = fetchAll(pages, <<updateDatabaseEntry(1, events[1], DEFAULT_CALENDAR_NAME,
                                                      1, pages[1].tags)>>)
    /\ UNCHANGED <<events, results>>

\* pushEventUpdate(event, event_id, calendar_id, page_id) for the page
pushEventUpdate ==
    /\ events[1].st = "live"
    /\ MapStep("update")
    /\ events' = pushEventUpdateIn(events, convertToGCalEvent(pages[1]), 1)
    /\ pages' = updateDatabaseSyncTime(pages, 1)
    /\ UNCHANGED results

NextMap == createEvent \/ pullEvent \/ pushEventUpdate

SpecMap == InitMap /\ [][NextMap]_vars

\* ================================================================ claims
Pulling == pc \in {"pull", "list", "parse"}
Range(sq) == {sq[i] : i \in DOMAIN sq}

\* C1: with IGNORE_RECENTLY_PUSHED enabled, every event syncToGCal() created
\* or updated for the current database is in the suppression set handed to
\* syncFromGCal(), and parseEvents() writes no entry on account of such an event.
C1_PushedAreSuppressed ==
    (IGNORE_RECENTLY_PUSHED /\ Pulling) =>
        /\ pushed \subseteq ignored_eIds
        /\ last.op \in {"queued", "cancelled"} => last.event \notin pushed

\* C2: in either deletion pass, an entry whose deleteEvent() returned false
\* is left as it was: it is not archived and keeps its Event ID and Calendar ID.
C2_FailedDeletionKeepsEntry ==
    [][(pc \in {"deleted", "completed"} /\ last'.op = "deleteEvent" /\ ~last'.ok)
          => pages'[last'.page] = pages[last'.page]]_vars

\* a deletion has just failed for an entry that is stale, linked and selected
C2_Witness ==
    /\ pc \in {"deleted", "completed"}
    /\ last.op = "deleteEvent" /\ ~last.ok
    /\ pages[last.page].st = "active"
    /\ pages[last.page].eventId = last.event

\* C3: the "completed" pass never changes an entry that carries the DELETED
\* tag: what happens to it is decided by the "deleted" pass alone, whatever
\* deleteEvent() returned there.
C3_CompletedPassLeavesDeleted ==
    [][(/\ pc = "completed"
        /\ last'.op \in {"deleteEvent", "unlinked"}
        /\ DELETED_TAG_NAME \in pages[last'.page].tags)
          => pages'[last'.page] = pages[last'.page]]_vars

\* C4: no query result holds an entry tagged Ignore Sync, the page lookup of
\* the pull returns none, and no step of the engine changes such an entry
\* or the event it refers to.
C4_IgnoreSyncUntouched ==
    /\ [](/\ \A i \in DOMAIN results : IGNORE_SYNC_TAG_NAME \notin results[i].props.tags
          /\ (last.op \in {"queued", "cancelled"} /\ last.page \in PageIds)
                => IGNORE_SYNC_TAG_NAME \notin pages[last.page].tags)
    /\ [][edits' = edits =>
            \A p \in PageIds :
                (pages[p].st = "active" /\ IGNORE_SYNC_TAG_NAME \in pages[p].tags) =>
                    /\ pages'[p] \in {pages[p], Rebase(pages)[p]}
                    /\ pages[p].eventId \in EventIds =>
                           events'[pages[p].eventId] = events[pages[p].eventId]]_vars

\* the push has passed over a stale, linked entry tagged Ignore Sync
C4_Witness ==
    /\ pc = "pull"
    /\ \E p \in PageIds :
         /\ pages[p].st = "active" /\ pages[p].db = DATABASE_ID
         /\ IGNORE_SYNC_TAG_NAME \in pages[p].tags
         /\ isPageUpdatedRecently(pages[p])
         /\ pages[p].eventId \in EventIds

\* C5: after a rejected sync token the retry lists the same calendar (and so
\* can succeed).
C5_RetrySameCalendar ==
    (pc = "list" /\ pull.retry) => pull.cal_name \in CalNames

\* C6: an all-day page that is made an event by createEvent() and then pulled
\* back has the start and the end the user gave it.
C6_AllDayRoundTrip ==
    (requests = <<"create", "pull">> /\ results[1].props.date.start.kind = "date")
        => pages[1].date = results[1].props.date

\* the date of the page as the user wrote it
WrittenDate == IF results = <<>> THEN pages[1].date ELSE results[1].props.date

\* C7: a timed page with a start and no end gets an event that ends 60
\* minutes after the start; pushing writes no end into the page; and after
\* the event is pulled into the page and the page pushed again, the event
\* still ends 60 minutes after the start.
C7_SynthesizedEnd ==
    (WrittenDate.start.kind = "time" /\ WrittenDate.end = Null) =>
        /\ requests # <<>> =>
              events[1].date = [all_day |-> FALSE, start |-> WrittenDate.start.v,
                                end |-> WrittenDate.start.v + 60]
        /\ "pull" \notin Range(requests) => pages[1].date = WrittenDate

\* such a page was pushed, pulled and pushed again
C7_Witness ==
    /\ requests = <<"create", "pull", "update">>
    /\ WrittenDate.start.kind = "time" /\ WrittenDate.end = Null
    /\ pages[1].date.end = DateTime(WrittenDate.start.v + 60)

\* C8: with SKIP_BAD_EVENTS enabled, an event without entry whose description
\* is longer than 2000 characters is skipped and parseEvents() goes on.
C8_BadEventSkipped ==
    [][(/\ SKIP_BAD_EVENTS
        /\ last'.op = "notfound"
        /\ ~checkNotionProperties([desc |-> events[last'.event].desc]))
          => pc' = "parse" /\ err' = "none"]_vars

\* C9: every event handed to parseEvents() is tagged with the current
\* database, and every entry the pull updates belongs to the database the
\* event is tagged with.
C9_OnlyOwnEvents ==
    /\ pc = "parse" => \A i \in DOMAIN pull.items : events[pull.items[i]].tag = DATABASE_ID
    /\ (last.op \in {"queued", "cancelled"} /\ last.page \in PageIds)
          => events[last.event].tag = pages[last.page].db

\* the pull of one database parses a calendar that holds an event of another
C9_Witness ==
    /\ pc = "parse"
    /\ \E e \in EventIds :
         /\ events[e].st = "live"
         /\ events[e].cal = CALENDAR_IDS[pull.cal_name]
         /\ events[e].tag \in DbIds \ {DATABASE_ID}

\* C10: an event without a linked entry is no error: parseEvents() goes on
\* with the remaining events.
C10_MissingEntryIsNoError ==
    last.op = "notfound" => pc = "parse" /\ err = "none"

\* C11: when the event an entry links is absent from its calendar, the
\* deletion pass treats the entry as removed: it archives the entry or clears
\* its back-references, so the entry does not stay linked to the missing event.
C11_AbsentEventCountsAsRemoved ==
    [][(/\ pc \in {"deleted", "completed"}
        /\ last'.op = "deleteEvent"
        /\ pages[last'.page].calId \in CalIds
        /\ ~getEventById(events, pages[last'.page].calId, last'.event))
          => pages'[last'.page] = DeletionUpdate(pages, pc, last'.page)]_vars

\* C12: in main() the phases of a database follow one another in the order deleted,
\* completed, push, pull (list and parse per calendar); a phase is left only
\* when its loop has no result left, and the next database starts only after
\* the pull of the current one went through all calendars.
PhaseSteps ==
    {<<"idle", "deleted">>, <<"deleted", "completed">>, <<"deleted", "push">>,
     <<"completed", "push">>, <<"push", "pull">>, <<"pull", "list">>,
     <<"list", "parse">>, <<"list", "pull">>, <<"parse", "list">>,
     <<"parse", "pull">>, <<"pull", "deleted">>, <<"pull", "idle">>}
C12_PhasesInOrder ==
    [][(entry = "main" \/ entry' = "main") =>
       /\ (pc' # pc /\ err' = "none") => <<pc, pc'>> \in PhaseSteps
       /\ (pc' # pc /\ err' = "none" /\ pc \in {"deleted", "completed", "push"})
             => results = <<>>
       /\ (pc = "deleted" /\ pc' = "push") => ~doesDatabaseHaveStatus
       /\ (pc = "parse" /\ pc' # pc /\ err' = "none") => pull.items = <<>>
       /\ (pc = "pull" /\ pc' \in {"deleted", "idle"}) => calsLeft = <<>>
       /\ (dbIdx' # dbIdx /\ pc' # "idle")
             => pc = "pull" /\ pc' = "deleted" /\ dbIdx' = dbIdx + 1
       /\ (pc = "idle" /\ pc' # pc) => dbIdx' = 1]_vars

\* the pull of the second database parses events
C12_Witness == entry = "main" /\ dbIdx = 2 /\ pc = "parse" /\ pull.items # <<>>

\* C13: a successful iteration of processDeletedPages() archives the entry in
\* the "deleted" pass with ARCHIVE_DELETED_PAGES enabled, and in every other
\* case leaves it unarchived with Event ID and Calendar ID cleared; title,
\* date, description, tags, status and Calendar are unchanged either way.
C13_ArchiveOrClear ==
    [][(pc \in {"deleted", "completed"} /\ last'.op \in {"deleteEvent", "unlinked"}
        /\ last'.ok)
          => LET old == pages[last'.page]
                 new == pages'[last'.page]
             IN /\ \A f \in {"db", "title", "date", "desc", "tags", "status", "calName",
                            "lastSync"} : new[f] = old[f]
                /\ IF pc = "deleted" /\ ARCHIVE_DELETED_PAGES
                   THEN new.st = "archived"
                   ELSE new.st = "active" /\ new.eventId = NoId /\ new.calId = NoSel]_vars

\* the "completed" pass has deleted an event and cleared the entry's references
C13_Witness ==
    /\ pc = "completed"
    /\ last.op = "deleteEvent" /\ last.ok
    /\ pages[last.page].st = "active"
    /\ pages[last.page].eventId = NoId
    /\ pages[last.page].status = COMPLETED_STATUS_NAME

\* C14: the set syncToGCal() returns holds every event the call created or
\* updated.
C14_ReturnedSetComplete ==
    pc = "push" => pushed \subseteq modified_eIds

\* C15: syncFromGCal() follows the page-token chain to its end: it returns
\* only when no page is left to list, whatever the number of events of the
\* current database on the pages listed before.
C15_ChainFollowed ==
    [][(pc = "list" /\ pc' = "pull")
          => \E n \in PageLengths :
                /\ Drop(PageChain, n) = <<>>
                /\ SelectSeq(Take(PageChain, n), LAMBDA e : TagFilter(events[e])) = <<>>]_vars

\* C16: every call of syncFromGCal() that returns without error has stored
\* the cursor of the listing it made.
C16_ReturnStoresCursor ==
    [][(pc \in {"list", "parse"} /\ pc' = "pull")
          => syncToken' = [cal |-> CalendarIdOf(pull.cal_name), since |-> {},
                           valid |-> TRUE]]_vars

\* C17: the stored cursor gets a new value only when the last page of a pull
\* has been listed and processed; apart from being cleared on a rejection, in
\* every other step (a failure partway included) it stays the cursor it was,
\* and no change it has still to report is lost.
C17_CursorWrittenAtEnd ==
    [][\/ pc = "parse" /\ pull.items = <<>> /\ pull.pageToken = <<>> /\ pc' = "pull"
       \/ last'.op = "rejected" /\ syncToken' = NoToken
       \/ syncToken'.cal = syncToken.cal /\ syncToken.since \subseteq syncToken'.since]_vars

\* a pull failed partway while a cursor with unreported changes was stored
C17_Witness ==
    /\ err = "PageNotFoundError"
    /\ Stored(syncToken) /\ syncToken.since # {}

\* C18: the cursor sent with the listing of a calendar was returned by an
\* earlier listing of that calendar.
C18_CursorOfSameCalendar ==
    (pc = "list" /\ pull.first /\ pull.cal_name \in CalNames /\ UsesToken)
        => syncToken.cal = CALENDAR_IDS[pull.cal_name]

\* C19: after a write of the engine to an entry that stays active, the
\* entry's Last Sync is not earlier than its last_edited_time.
C19_EngineWriteKeepsSynced ==
    [][(pc # "idle" /\ pc' # "idle") =>
          \A p \in PageIds :
              (pages'[p] # pages[p] /\ pages'[p].st = "active")
                  => pages'[p].lastSync >= pages'[p].lastEdited]_vars

\* C20: an entry is stale iff its Last Sync (the epoch when it has none) is
\* strictly earlier than its last_edited_time, and an iteration of
\* processDeletedPages() or syncToGCal() writes neither to an entry that is
\* not stale nor to its event.
C20_NotStaleIsSkipped ==
    /\ [](\A p \in PageIds : pages[p].st # "absent" =>
              (isPageUpdatedRecently(pages[p])
                   <=> pages[p].lastSync < pages[p].lastEdited))
    /\ [][(pc \in {"deleted", "completed", "push"} /\ pc' = pc) =>
            /\ (results # <<>> /\ ~(Head(results).props.lastSync
                                       < Head(results).props.lastEdited))
                  => pages' = pages /\ events' = events
            /\ \A p \in PageIds :
                  (pages[p].st = "active" /\ pages[p].lastSync >= pages[p].lastEdited)
                      => /\ pages'[p] = pages[p]
                         /\ pages[p].eventId \in EventIds =>
                                events'[pages[p].eventId] = events[pages[p].eventId]]_vars

\* the push has skipped an entry that is linked and not stale
C20_Witness ==
    /\ pc = "push"
    /\ last.op = "skip"
    /\ pages[last.page].lastSync >= pages[last.page].lastEdited
    /\ pages[last.page].eventId \in EventIds

\* C21: when parseEvents() handles a cancelled event whose entry is found and
\* TAG_CANCELLED_EVENTS is enabled, the tags of the entry after the update are
\* the tags it had before together with the DELETED tag.
C21_CancelledKeepsTags ==
    [][(TAG_CANCELLED_EVENTS /\ last'.op = "cancelled" /\ last'.ok)
          => pages'[last'.page].tags
                 = pages[last'.page].tags \cup {DELETED_TAG_NAME}]_vars

\* C22: when the current database has no Status property, main() goes on
\* without error after the "completed" pass was skipped: when syncToGCal()
\* has returned, the pull of that database begins.
C22_NoStatusIsSkipped ==
    [][(entry = "main" /\ ~doesDatabaseHaveStatus /\ pc = "push" /\ results = <<>>
        /\ pc' # pc)
          => pc' = "pull" /\ err' = "none"]_vars

C24_RetryConverges ==
    [][(last'.op = "create" /\ last'.ok)
          => ~\E e \in EventIds : /\ events[e].st = "live"
                                  /\ events[e].page = last'.page
                                  /\ events[e].tag = pages[last'.page].db]_vars

\* C25: with TAG_CANCELLED_EVENTS disabled, an entry whose event was
\* cancelled in the calendar and whose references the pull has cleared gets
\* a new event at the next main(): syncToGCal() does not skip such an entry.
C25_CancelledIsRecreated ==
    [][(~TAG_CANCELLED_EVENTS /\ pc = "push" /\ last'.op = "skip")
          => LET page == pages[last'.page]
             IN ~(/\ page.eventId = NoId
                  /\ page.date # NoDate
                  /\ page.calName \in CalNames \cup {NoSel}
                  /\ \E e \in EventIds : /\ events[e].st = "cancelled"
                                          /\ events[e].page = last'.page)]_vars

IgnoresGCalUpdates == retrieveDatabaseKeys[dbIdx] \in DATABASES_IGNORING_GCAL_UPDATES
IgnoringDatabaseIds ==
    {DbIdOf[retrieveDatabaseKeys[i]] : i \in {j \in DOMAIN retrieveDatabaseKeys :
        retrieveDatabaseKeys[j] \in DATABASES_IGNORING_GCAL_UPDATES}}
C27_IgnoringDatabaseNotPulled ==
    [][/\ (pc # "idle" /\ IgnoresGCalUpdates)
            => /\ pc \notin {"list", "parse"}
               /\ pc = "pull" => /\ calsLeft = <<>>
                                 /\ requests = <<>>
                                 /\ syncToken' = syncToken
                                 /\ entry = "main" => last.op = "pushDone"
       /\ (pc \in {"pull", "list", "parse"} /\ pc' # "idle")
            => \A p \in PageIds :
                  pages[p].db \in IgnoringDatabaseIds => pages'[p] = pages[p]]_vars

\* main() has deleted or pushed for a database that ignores calendar updates
\* and is at its pull
C27_Witness ==
    /\ entry = "main"
    /\ pc = "pull"
    /\ IgnoresGCalUpdates
    /\ deleted_eIds \cup completed_eIds \cup modified_eIds # {}

\* C28: the "completed" pass never touches a Completed entry whose Calendar
\* name is in CALENDARS_IGNORING_COMPLETED_DELETION: the entry is not among
\* the results of the pass, and no step of the pass changes the entry or its
\* calendar event.
ExemptFromCompletedDeletion(page) ==
    /\ page.st = "active"
    /\ page.status = COMPLETED_STATUS_NAME
    /\ page.calName \in CALENDARS_IGNORING_COMPLETED_DELETION
C28_ExemptCalendarKept ==
    [][/\ pc' = "completed"
            => \A i \in DOMAIN results' :
                  ~ExemptFromCompletedDeletion(pages'[results'[i].id])
       /\ pc = "completed"
            => \A p \in PageIds :
                  ExemptFromCompletedDeletion(pages[p])
                    => /\ pages'[p] = pages[p]
                       /\ pages[p].eventId # NoId
                             => events'[pages[p].eventId] = events[pages[p].eventId]]_vars

\* the "completed" pass of a database with a Status property has ended while
\* a stale, linked Completed entry of an exempt calendar is in the database
C28_Witness ==
    /\ pc = "completed"
    /\ results = <<>>
    /\ doesDatabaseHaveStatus
    /\ \E p \in PageIds : /\ ExemptFromCompletedDeletion(pages[p])
                           /\ pages[p].db = DATABASE_ID
                           /\ isPageUpdatedRecently(pages[p])
                           /\ IGNORE_SYNC_TAG_NAME \notin pages[p].tags
                           /\ pages[p].eventId # NoId
                           /\ pages[p].calId # NoSel
                           /\ events[pages[p].eventId].st = "live"

\* C29: during an invocation the schema of a database is fetched at most
\* once and kept under the database's id: what the store holds for a
\* database is that database's schema, the current database has its entry,
\* and doesDatabaseHaveProperty() answers from the schema of the current
\* database, never from that of a database processed before.
C29_SchemaStoredPerDatabase ==
    /\ \A d \in DbIds :
          /\ DATABASE_PROPERTIES_STORE[d].fetches <= 1
          /\ DATABASE_PROPERTIES_STORE[d].stored
                => DATABASE_PROPERTIES_STORE[d].properties = Schema(d)
          /\ DATABASE_PROPERTIES_STORE[d].stored
                <=> DATABASE_PROPERTIES_STORE[d].fetches = 1
    /\ pc # "idle"
          => /\ DATABASE_PROPERTIES_STORE[DATABASE_ID].stored
             /\ doesDatabaseHaveStatus <=> STATUS_NOTION \in Schema(DATABASE_ID)

\* the second database is current, its schema differs from the schema of the
\* first one, and both are in the store
C29_Witness ==
    /\ pc # "idle"
    /\ dbIdx = 2
    /\ \A d \in DbIds : DATABASE_PROPERTIES_STORE[d].stored
    /\ Schema(DbIdOf[retrieveDatabaseKeys[1]]) # Schema(DATABASE_ID)
    /\ ~doesDatabaseHaveStatus

\* C30: every listing request of syncFromGCal() carries the stored cursor or
\* a time window, never both and never neither: the cursor iff one is stored
\* and no full sync was requested, and otherwise the window from the day 30
\* days before the current one to the day 1825 days after it (both taken at
\* hour 0 by getRelativeDate()).
C30_CursorOrWindow ==
    (pc = "list" /\ pull.cal_name \in CalNames) =>
        LET options == pull.options
            cursor == options.syncToken # {}
            window == options.timeMin # {} /\ options.timeMax # {}
        IN /\ cursor <=> ~window
           /\ cursor <=> (options.timeMin = {} /\ options.timeMax = {})
           /\ cursor <=> (Stored(syncToken) /\ ~pull.fullSync)
           /\ cursor => options.syncToken = {syncToken.cal}
           /\ window => \E now \in Clock :
                           /\ options.timeMin = {(LocalDay(now) - 30) * Day - cfg.tz}
                           /\ options.timeMax = {(LocalDay(now) + 1825) * Day - cfg.tz}

\* a full sync lists with the window although a cursor is stored
C30_Witness ==
    /\ pc = "list"
    /\ pull.cal_name \in CalNames
    /\ Stored(syncToken)
    /\ pull.fullSync
    /\ pull.options.syncToken = {}
    /\ pull.options.timeMin # {}

\* C31: syncToGCal() never creates, updates or moves an event for an entry
\* that carries the DELETED tag or, in a database with a Status property, the
\* Completed status: no such entry is among its results, also not one whose
\* calendar deletion failed in a deletion pass of the same invocation.
MarkedForDeletion(page) ==
    \/ DELETED_TAG_NAME \in page.tags
    \/ doesDatabaseHaveStatus /\ page.status = COMPLETED_STATUS_NAME
C31_MarkedEntriesNotPushed ==
    pc = "push" =>
        /\ \A i \in DOMAIN results :
              /\ ~MarkedForDeletion(results[i].props)
              /\ ~MarkedForDeletion(pages[results[i].id])
        /\ last.op \in {"create", "update", "move"}
              => ~MarkedForDeletion(pages[last.page])

\* syncToGCal() has run while a stale, linked entry of the database still
\* carries the DELETED tag: the deletion of its event has failed before
C31_Witness ==
    /\ pc = "push"
    /\ results = <<>>
    /\ \E p \in PageIds : /\ pages[p].st = "active"
                           /\ pages[p].db = DATABASE_ID
                           /\ DELETED_TAG_NAME \in pages[p].tags
                           /\ IGNORE_SYNC_TAG_NAME \notin pages[p].tags
                           /\ isPageUpdatedRecently(pages[p])
                           /\ pages[p].eventId # NoId
                           /\ pages[p].calId # NoSel

\* C32: for a stale entry with a date whose Calendar name is no key of
\* CALENDAR_IDS, the iteration of syncToGCal() raises no error and changes
\* nothing: no event is created, updated or deleted, the entry is not
\* written, and nothing is added to the set syncToGCal() returns.
C32_UnknownCalendarIsNoOp ==
    [][(/\ pc = "push" /\ results # <<>>
        /\ isPageUpdatedRecently(Head(results).props)
        /\ Head(results).props.date # NoDate
        /\ Head(results).props.calName \notin CalNames \cup {NoSel})
          => /\ pc' = "push" /\ err' = "none"
             /\ results' = Tail(results)
             /\ UNCHANGED <<pages, events, syncToken, modified_eIds, pushed>>]_vars

\* syncToGCal() has passed over a linked entry with an unlisted Calendar name
C32_Witness ==
    /\ pc = "push"
    /\ last.op = "nocal"
    /\ pages[last.page].calName = UnknownCalName
    /\ pages[last.page].eventId # NoId
    /\ pages[last.page].date # NoDate
    /\ isPageUpdatedRecently(pages[last.page])

\* C33: for a stale entry without a date syncToGCal() creates no event; when
\* the entry has an Event ID and a Calendar ID, the event is gone afterwards
\* and the entry's references are cleared (unless the call to Google
\* Calendar itself fails), and otherwise calendar and entry are untouched.
C33_NoDateUnlinks ==
    [][(/\ pc = "push" /\ results # <<>>
        /\ isPageUpdatedRecently(Head(results).props)
        /\ Head(results).props.date = NoDate
        /\ faults' = faults)
          => LET p == Head(results).id
                 page == Head(results).props
             IN /\ \A e \in EventIds : events[e].st = "free" => events'[e] = events[e]
                /\ IF page.eventId # NoId /\ page.calId # NoSel
                   THEN /\ events'[page.eventId].st # "live"
                        /\ pages'[p].eventId = NoId
                        /\ pages'[p].calId = NoSel
                   ELSE UNCHANGED <<pages, events>>]_vars

\* C34: when parseEvents() meets a cancelled event that no entry of the
\* current database is linked to, it writes nothing for the event, raises no
\* error and goes on with the events that remain.
C34_CancelledWithoutEntry ==
    [][(/\ pc = "parse" /\ pull.items # <<>>
        /\ events[Head(pull.items)].st = "cancelled"
        /\ ~PageFound(pages, Head(pull.items)))
          => /\ pc' = "parse" /\ err' = "none"
             /\ pull' = [pull EXCEPT !.items = Tail(@)]
             /\ UNCHANGED <<pages, requests, events, syncToken>>]_vars

\* a cancelled event that carries a summary and is not suppressed was met,
\* and no entry was found for it
C34_Witness ==
    /\ pc = "parse"
    /\ last.op = "cancelled" /\ ~last.ok
    /\ events[last.event].st = "cancelled"
    /\ ~PageFound(pages, last.event)

\* C35: fullSync() only pulls: it runs no deletion pass and no push, every
\* listing it sends is in time-window mode without the stored cursor, the
\* suppression set is empty, and no calendar event is created, updated or
\* deleted while it runs.
C35_FullSyncOnlyPulls ==
    [][entry = "fullSync"
          => /\ pc \in {"pull", "list", "parse"}
             /\ ignored_eIds = {} /\ deleted_eIds = {} /\ completed_eIds = {}
             /\ modified_eIds = {} /\ pushed = {}
             /\ pc \in {"list", "parse"}
                   => /\ pull.fullSync
                      /\ pull.options.syncToken = {}
                      /\ pull.options.timeMin # {} /\ pull.options.timeMax # {}
             /\ events' = events]_vars

\* fullSync() parses the events of a calendar while a cursor is stored
C35_Witness ==
    /\ entry = "fullSync"
    /\ pc = "parse"
    /\ pull.items # <<>>
    /\ Stored(syncToken)

\* C36: for an all-day entry with a start and an end, pushEventUpdate() gives
\* the event the start and the exclusive end that createEvent() would give
\* it for the same entry.
C36_UpdateAsCreate ==
    (/\ last.op = "update"
     /\ pages[1].date.start.kind = "date"
     /\ pages[1].date.end # Null)
        => events[1].date = createEventDates(convertToGCalEvent(pages[1]))

\* C37: a change of an event of a database that main() pulls after another
\* one is handed to parseEvents() in the pull of its own database: when the
\* pull of an earlier database on the same calendar stores a new cursor, no
\* change that the old cursor alone would list, of an event tagged with a
\* later database, is dropped with it.
LaterDatabaseIds ==
    {DbIdOf[retrieveDatabaseKeys[i]] : i \in {j \in DOMAIN retrieveDatabaseKeys :
        j > dbIdx /\ retrieveDatabaseKeys[j] \notin DATABASES_IGNORING_GCAL_UPDATES}}
C37_ChangesOfLaterDatabaseKept ==
    [][(/\ entry = "main" /\ pc = "parse" /\ pull.items = <<>>
        /\ syncToken.valid
        /\ syncToken' # syncToken)
          => \A e \in syncToken.since :
                ~(/\ events[e].st \in {"live", "cancelled"}
                  /\ events[e].cal = CalendarIdOf(pull.cal_name)
                  /\ events[e].tag \in LaterDatabaseIds
                  /\ events[e].tag # DATABASE_ID
                  /\ e \notin syncToken'.since)]_vars

\* C38: in the move branch an entry gets a fresh Last Sync only if the move
\* succeeded: after a move that deleted the old event and failed to create
\* the new one the entry is still stale, and it does not reference, as an
\* entry that is not stale, the event the engine has just deleted.
C38_FailedMoveStaysStale ==
    [][(/\ last'.op = "move"
        /\ ~last'.ok
        /\ last'.event = NoId
        /\ events[pages[last'.page].eventId].st = "live"
        /\ events'[pages[last'.page].eventId].st = "cancelled")
          => isPageUpdatedRecently(pages'[last'.page])]_vars

\* the live events that were created for a page
LiveEventsOf(ev, page_id) ==
    {e \in EventIds : ev[e].st = "live" /\ ev[e].page = page_id}

\* C39: after syncToGCal() has handled an entry whose Calendar name was
\* changed, at most one live event created for that entry exists in all the
\* calendars: the new event is created only when the old one is gone.
C39_MoveLeavesOneEvent ==
    [][last'.op = "move" => Cardinality(LiveEventsOf(events', last'.page)) <= 1]_vars

====
